---------------------------- MODULE Spec2Model ----------------------------
(***************************************************************************)
(* squashmerge: applies a sqdelta patch to a SquashFS image.               *)
(*                                                                         *)
(* The module holds the codec selector validation (compressor.c), the      *)
(* bounds-checked file map and the sqdelta header parser (util.c,          *)
(* squashmerge.c) and the pipeline of main with its worker pool.           *)
(*                                                                         *)
(* Numbers: size_t is modelled modulo 2^SizeBits; uint32_t values are      *)
(* naturals below 2^31 (the model checker's integer range), so selectors   *)
(* and on-wire words whose top bit is set are outside the explored inputs. *)
(***************************************************************************)
EXTENDS Integers, Sequences, FiniteSets, TLC

VARIABLES
    \* ---- compressor.c: one call of compressor_init ----
    sel,            \* the selector handed to compressor_init
    ENABLE_LZO,     \* build-time switch
    ENABLE_LZ4,     \* build-time switch
    lzo_init_ok,    \* whether lzo_init() returns LZO_E_OK
    codec_pc,       \* "call" before compressor_init runs, "done" after
    init_ret        \* the int compressor_init returned (0 before the call)

VARIABLES
    \* ---- util.c: one call of mmap_read ----
    rd_f_length,    \* f->length
    rd_offset,      \* the argument offset
    rd_length,      \* the argument length
    rd_pc,          \* "call" before mmap_read runs, "done" after
    rd_ret          \* the pointer returned, as an offset from f->data, or NULL

VARIABLES
    \* ---- squashmerge.c: main and the files it holds ----
    pc,             \* the statement main (or the function it called) is at
    exit_status,    \* -1 while running, else the process exit status
    stage_log,      \* the pipeline steps run so far, each with its outcome
    source_f,       \* struct mmap_file of the source image
    patch_f,        \* struct mmap_file of the patch
    target_f,       \* struct mmap_file of the target
    temp_source_f,  \* struct mmap_file of the scratch file
    scratch_file,   \* the scratch file in TMPDIR: "none", "present", "unlinked"
    closes,         \* the mmap_close calls made so far, in order
    dh,             \* the parsed struct sqdelta_header of the function running
    \* ---- expand_input / squash_target_file locals ----
    prev_offset,    \* the caller's prev_offset, the cell d.prev_offset points to
    loop_i,         \* the caller's loop index i
    last_copy,      \* the last memcpy: bytes asked for, room at source and at dest
    \* ---- run_multithreaded and its workers ----
    d,              \* struct compress_data_shared
    pool_pc,        \* run_multithreaded's position
    pool_i,         \* its loop index i
    pool_ret,       \* its variable ret
    spawned,        \* its variable spawned
    w_pc,           \* per worker: "none", "ready", "loop", "done", "joined"
    w_prev,         \* per worker: the local prev_offset
    w_i,            \* per worker: the local loop index i
    w_res,          \* per worker: the value the thread ended with
    w_cancel,       \* per worker: pthread_cancel has been called on it
    w_blocks,       \* per worker: the table indexes it has processed
    cell_reads,     \* per worker: the value it read from *d.prev_offset and
                    \* the number of worker writes to the cell before the read
    cell_writes,    \* the writes to *d.prev_offset made by workers, in order
    \* ---- the codec as the pipeline uses it ----
    init_accepted,  \* selectors compressor_init has accepted in this process
    codec_calls,    \* the compressor_compress / _decompress calls made
    hdr_call        \* the last read_sqdelta_header call that returned: its
                    \* file, offset, f->length and the 16 bytes at the offset

codecVars == <<sel, ENABLE_LZO, ENABLE_LZ4, lzo_init_ok, codec_pc, init_ret>>

readVars == <<rd_f_length, rd_offset, rd_length, rd_pc, rd_ret>>

\* the state of the single-function calls
pureVars == <<codecVars, readVars>>

fileVars == <<source_f, patch_f, target_f, temp_source_f, scratch_file, closes>>

mainVars == <<pc, exit_status, stage_log, dh>>

callerVars == <<prev_offset, loop_i, last_copy>>

poolVars == <<d, pool_pc, pool_i, pool_ret, spawned>>

workerVars ==
    <<w_pc, w_prev, w_i, w_res, w_cancel, w_blocks, cell_reads, cell_writes>>

useVars == <<init_accepted, codec_calls, hdr_call>>

pipeVars == <<fileVars, mainVars, callerVars, poolVars, workerVars, useVars>>

vars == <<pureVars, pipeVars>>

(***************************************************************************)
(* Bit arithmetic on naturals.                                             *)
(***************************************************************************)
RECURSIVE BitAnd(_, _)
BitAnd(a, b) ==
    IF a = 0 \/ b = 0 THEN 0
    ELSE (a % 2) * (b % 2) + 2 * BitAnd(a \div 2, b \div 2)

\* a & ~m
BitAndNot(a, m) == a - BitAnd(a, m)

(***************************************************************************)
(* compressor.c: enum compressor_id, lzo_options, lz4_options.             *)
(***************************************************************************)
COMP_ID_SHIFT == 24
COMP_ID_LZO == 1 * 2^COMP_ID_SHIFT
COMP_ID_LZ4 == 2 * 2^COMP_ID_SHIFT

\* c & COMP_ID_MASK (0xff << 24): the low 24 bits cleared
CompId(c) == c - BitAnd(c, 2^COMP_ID_SHIFT - 1)

COMP_LZO_ALGO_LZO1X_999_MIN == 1
COMP_LZO_ALGO_LZO1X_999_MAX == 9
COMP_LZO_ALGO_MASK == 15
COMP_LZO_OPTIMIZED == 16
COMP_LZO_KNOWN_FLAG_MASK == COMP_LZO_OPTIMIZED
COMP_LZO_FLAG_MASK == 16777200

COMP_LZ4_HC == 1
COMP_LZ4_KNOWN_FLAG_MASK == COMP_LZ4_HC
COMP_LZ4_FLAG_MASK == 16777215

\* compressor_init with the upper variant bound tested with >= instead of >
compressor_init_offbyone(c, lzo, lz4, lzoOk) ==
    CASE CompId(c) = COMP_ID_LZO ->
            IF ~lzo THEN 0
            ELSE IF BitAnd(c, COMP_LZO_ALGO_MASK) < COMP_LZO_ALGO_LZO1X_999_MIN
                    \/ BitAnd(c, COMP_LZO_ALGO_MASK) >= COMP_LZO_ALGO_LZO1X_999_MAX
                 THEN 0
            ELSE IF BitAndNot(BitAnd(c, COMP_LZO_FLAG_MASK),
                              COMP_LZO_KNOWN_FLAG_MASK) # 0
                 THEN 0
            ELSE IF ~lzoOk THEN 0
            ELSE 1
      [] CompId(c) = COMP_ID_LZ4 ->
            IF ~lz4 THEN 0
            ELSE IF BitAndNot(BitAnd(c, COMP_LZ4_FLAG_MASK),
                              COMP_LZ4_KNOWN_FLAG_MASK) # 0
                 THEN 0
            ELSE 1
      [] OTHER -> 1

\* int compressor_init(uint32_t c): 1 = accepted, 0 = error.
\* The default: branch prints "Unknown compressor" and leaves the switch,
\* so it reaches the final return 1 like the accepting branches.
compressor_init(c, lzo, lz4, lzoOk) ==
    CASE CompId(c) = COMP_ID_LZO ->
            IF ~lzo THEN 0
            ELSE IF BitAnd(c, COMP_LZO_ALGO_MASK) < COMP_LZO_ALGO_LZO1X_999_MIN
                    \/ BitAnd(c, COMP_LZO_ALGO_MASK) > COMP_LZO_ALGO_LZO1X_999_MAX
                 THEN 0
            ELSE IF BitAndNot(BitAnd(c, COMP_LZO_FLAG_MASK),
                              COMP_LZO_KNOWN_FLAG_MASK) # 0
                 THEN 0
            ELSE IF ~lzoOk THEN 0
            ELSE 1
      [] CompId(c) = COMP_ID_LZ4 ->
            IF ~lz4 THEN 0
            ELSE IF BitAndNot(BitAnd(c, COMP_LZ4_FLAG_MASK),
                              COMP_LZ4_KNOWN_FLAG_MASK) # 0
                 THEN 0
            ELSE 1
      [] OTHER -> 1

(***************************************************************************)
(* Selectors explored: codec ids around the two known ones, every value of *)
(* the variant nibble, bit 4, and samples of the reserved bits 5..23.      *)
(***************************************************************************)
SelectorIds == {0, 1, 2, 3, 127}
SelectorReserved == {0, 2^5, 2^6, 2^8, 2^16, 2^23, 2^5 + 2^23}
Selectors ==
    { id * 2^COMP_ID_SHIFT + r + b4 * 16 + v :
        id \in SelectorIds, r \in SelectorReserved, b4 \in {0, 1}, v \in 0..15 }

\* the codec state of a process that is not inside compressor_init; the
\* build has both codecs
CodecIdle ==
    /\ sel = 0
    /\ ENABLE_LZO = TRUE
    /\ ENABLE_LZ4 = TRUE
    /\ lzo_init_ok = TRUE
    /\ codec_pc = "idle"
    /\ init_ret = 0

(***************************************************************************)
(* Sizes.  size_t arithmetic wraps modulo SizeMod.                         *)
(***************************************************************************)
SizeBits == 6
SizeMod == 2^SizeBits

Add(a, b) == (a + b) % SizeMod
Sub(a, b) == ((a % SizeMod) - (b % SizeMod) + SizeMod) % SizeMod
Mul(a, b) == (a * b) % SizeMod

\* sizeof(struct sqdelta_header), sizeof(struct compressed_block)
sizeof_dh == 16
sizeof_block == 12
sqdelta_magic == 1399967412

\* the null pointer; any other pointer is an offset from its mapping's start
NULL == -1

(***************************************************************************)
(* File contents are sequences of cells.  A cell <<"b", v>> is a byte of   *)
(* value v; the other cells name where a byte came from: <<"src", k>> is   *)
(* byte k of the source image, <<"dec", i, k>> byte k of the decompressed  *)
(* payload of block i, <<"zero", 0>> a byte of a freshly extended file and *)
(* <<"wild", 0>> a byte read from outside every mapping.                   *)
(***************************************************************************)
Byte(v) == <<"b", v>>
ByteOf(cell) == IF cell[1] = "b" THEN cell[2] ELSE 0
ZeroCell == <<"zero", 0>>
WildCell == <<"wild", 0>>

\* htonl: the four on-wire bytes of a 32-bit word, most significant first
htonl(v) ==
    << Byte(v \div 2^24), Byte((v \div 2^16) % 256),
       Byte((v \div 2^8) % 256), Byte(v % 256) >>

\* ntohl on the four cells c at a pointer
ntohl(c) ==
    ByteOf(c[1]) * 2^24 + ByteOf(c[2]) * 2^16 + ByteOf(c[3]) * 2^8 + ByteOf(c[4])

(***************************************************************************)
(* util.c: mmap_read.  The test is made on the wrapped sum.                *)
(***************************************************************************)
mmap_read(f, offset, length) ==
    IF Add(offset, length) > f.length THEN NULL ELSE offset

\* no stand-alone mmap_read call is being followed
ReadIdle ==
    /\ rd_f_length = 0
    /\ rd_offset = 0
    /\ rd_length = 0
    /\ rd_pc = "idle"
    /\ rd_ret = NULL

\* the cell at pointer p + j of mapping f; outside the mapping the read is
\* undefined and yields the cell the caller supplies
CellAt(f, p, j, outside) ==
    LET x == (p + j) % SizeMod
    IN  IF x < f.length /\ x < Len(f.data) THEN f.data[x + 1] ELSE outside

\* whether the n bytes at pointer p all lie inside mapping f
Inside(f, p, n) ==
    \A j \in 0..(n - 1) :
        LET x == (p + j) % SizeMod IN x < f.length /\ x < Len(f.data)

Cells(f, p, n, outside) == [j \in 1..n |-> CellAt(f, p, j - 1, outside[j])]

(***************************************************************************)
(* squashmerge.c: read_sqdelta_header.  `outside` are the 16 cells a read  *)
(* outside the mapping would see.  On failure only magic is meaningful.    *)
(***************************************************************************)
FailedHeader(flags) ==
    [magic |-> 0, flags |-> flags, compression |-> 0, block_count |-> 0]

read_sqdelta_header(f, offset, outside) ==
    LET h == mmap_read(f, offset, sizeof_dh)
        c == Cells(f, h, sizeof_dh, outside)
    IN  IF h = NULL THEN FailedHeader(0)
        ELSE IF ntohl(SubSeq(c, 1, 4)) # sqdelta_magic THEN FailedHeader(0)
        ELSE IF ntohl(SubSeq(c, 5, 8)) # 0
             THEN FailedHeader(ntohl(SubSeq(c, 5, 8)))
        ELSE [ magic |-> sqdelta_magic,
               flags |-> 0,
               compression |-> ntohl(SubSeq(c, 9, 12)),
               block_count |-> ntohl(SubSeq(c, 13, 16)) ]

\* what is kept of a read_sqdelta_header call: the 16 cells at the offset
\* are those of the file where the header lies inside it
HeaderCall(name, f, offset) ==
    [ file |-> name, offset |-> offset, f_length |-> f.length,
      bytes |-> Cells(f, offset, sizeof_dh, [j \in 1..sizeof_dh |-> WildCell]) ]

\* struct compressed_block number i (0-based) of the table at pointer p of f
BlockAt(f, p, i, outside) ==
    LET q == p + sizeof_block * i
        w(k) == ntohl([j \in 1..4 |-> CellAt(f, q, k + j - 1, outside)])
    IN  [offset |-> w(0), length |-> w(4), uncompressed_length |-> w(8)]

(***************************************************************************)
(* The inputs: patch images.                                               *)
(***************************************************************************)
MaxBlocks == 2
MaxSource == 4
MaxOffset == 3
MaxLength == 1
MaxUnc == 2
MaxThreads == 2

SourceLengths == {MaxSource - 1, MaxSource}
SourceImage(n) == [k \in 1..n |-> <<"src", k - 1>>]

\* an LZO selector init would accept, an LZ4 selector with a reserved bit
\* set, and a selector of an unknown codec
PatchSelectors == {COMP_ID_LZO + 9, COMP_ID_LZ4 + 2, 3 * 2^COMP_ID_SHIFT}

BlockChoices == (0..MaxOffset) \X (1..MaxLength) \X (1..MaxUnc)

RECURSIVE Flatten(_)
Flatten(ss) == IF ss = <<>> THEN <<>> ELSE Head(ss) \o Flatten(Tail(ss))

HeaderImage(magic, flags, comp, n) ==
    htonl(magic) \o htonl(flags) \o htonl(comp) \o htonl(n)

TableImage(tbl) ==
    Flatten([i \in 1..Len(tbl) |->
                htonl(tbl[i][1]) \o htonl(tbl[i][2]) \o htonl(tbl[i][3])])

\* the opaque xdelta3 payload that follows the table
DeltaBody == <<Byte(214), Byte(195)>>

Tables == UNION { [1..n -> BlockChoices] : n \in 0..MaxBlocks }

PatchImage(c, t) ==
    HeaderImage(sqdelta_magic, 0, c, Len(t)) \o TableImage(t) \o DeltaBody

\* every table with the LZO selector, the one-block tables with the others
GoodPatches ==
    { PatchImage(COMP_ID_LZO + 9, t) : t \in Tables }
        \cup { PatchImage(c, t) : c \in PatchSelectors,
                                  t \in [1..1 -> BlockChoices] }

\* wrong magic, a flag set, a file cut inside the header, a table one block
\* shorter than block_count says
BadPatches ==
    { HeaderImage(sqdelta_magic + 1, 0, COMP_ID_LZO + 9, 0) \o DeltaBody,
      HeaderImage(0, 0, COMP_ID_LZO + 9, 0) \o DeltaBody,
      HeaderImage(sqdelta_magic, 1, COMP_ID_LZO + 9, 0) \o DeltaBody,
      HeaderImage(sqdelta_magic, 2^24, COMP_ID_LZO + 9, 0) \o DeltaBody,
      SubSeq(HeaderImage(sqdelta_magic, 0, COMP_ID_LZO + 9, 0), 1, sizeof_dh - 1),
      HeaderImage(sqdelta_magic, 0, COMP_ID_LZO + 9, 2)
          \o TableImage(<< <<0, 1, 1>> >>) }

PatchImages == GoodPatches \cup BadPatches

(***************************************************************************)
(* compressor.c: compressor_decompress.  `produced` is what the codec      *)
(* library reports for the block (out_bytes); a codec that is not built in *)
(* and an unknown codec id fall through to return 0.                       *)
(***************************************************************************)
compressor_decompress(c, lzo, lz4, produced) ==
    CASE CompId(c) = COMP_ID_LZO -> IF lzo THEN produced ELSE 0
      [] CompId(c) = COMP_ID_LZ4 -> IF lz4 THEN produced ELSE 0
      [] OTHER -> 0

\* what the codec library may report for a block declared to expand to unc
\* bytes: unc, an error (0), or a shorter output
DecompressOutcomes(unc) == {unc, 0} \cup (IF unc > 1 THEN {unc - 1} ELSE {})

(***************************************************************************)
(* struct mmap_file values.                                                *)
(***************************************************************************)
NoFile == [fd |-> "none", data |-> <<>>, length |-> 0, mapped |-> FALSE]

\* the lengths an uninitialised struct mmap_file may hold
GarbageLengths == {0, SizeMod - 1}

Workers == 0..(MaxThreads - 1)

NoShared ==
    [ dh |-> FailedHeader(0), list_file |-> "none", list_off |-> 0,
      task |-> "none", thread_count |-> 0 ]

File(name) ==
    CASE name = "source" -> source_f
      [] name = "patch" -> patch_f
      [] name = "target" -> target_f
      [] OTHER -> temp_source_f

\* memcpy(dst + at, src + from, n): the bytes that land inside dst's mapping
CopyCells(dstf, at, srcf, from, n) ==
    [x \in 1..Len(dstf.data) |->
        IF x - 1 >= at /\ x - 1 < at + n
        THEN IF from + (x - 1 - at) < Len(srcf.data)
             THEN srcf.data[from + (x - 1 - at) + 1]
             ELSE WildCell
        ELSE dstf.data[x]]

\* whether memcpy(dst + at, src + from, n) stays inside both mappings
CopyDefined(dstf, at, srcf, from, n) ==
    \/ n = 0
    \/ /\ dstf.mapped /\ srcf.mapped
       /\ at + n <= Len(dstf.data)
       /\ from + n <= Len(srcf.data)

Room(f, at) == IF at <= f.length THEN f.length - at ELSE 0

(***************************************************************************)
(* The pipeline before main runs.                                          *)
(***************************************************************************)
PipeRest ==
    /\ exit_status = -1
    /\ stage_log = <<>>
    /\ source_f = NoFile
    /\ patch_f = NoFile
    /\ target_f = [ fd |-> "none", data |-> <<>>, length |-> 0,
                    mapped |-> FALSE, state |-> "absent", disk_length |-> 0 ]
    /\ temp_source_f = NoFile
    /\ scratch_file = "none"
    /\ closes = <<>>
    /\ dh = FailedHeader(0)
    /\ prev_offset = 0
    /\ loop_i = 0
    /\ last_copy = [n |-> 0, src_room |-> 0, dst_room |-> 0]
    /\ d = NoShared
    /\ pool_pc = "idle"
    /\ pool_i = 0
    /\ pool_ret = 0
    /\ spawned = 0
    /\ w_pc = [k \in Workers |-> "none"]
    /\ w_prev = [k \in Workers |-> 0]
    /\ w_i = [k \in Workers |-> 0]
    /\ w_res = [k \in Workers |-> "none"]
    /\ w_cancel = [k \in Workers |-> FALSE]
    /\ w_blocks = [k \in Workers |-> {}]
    /\ cell_reads = [k \in Workers |-> <<NULL, 0>>]
    /\ cell_writes = <<>>
    /\ init_accepted = {}
    /\ codec_calls = {}
    /\ hdr_call = [file |-> "none", offset |-> 0, f_length |-> 0, bytes |-> <<>>]

PipeIdle == pc = "idle" /\ PipeRest

Logged(stage, ok) == stage_log' = Append(stage_log, <<stage, ok>>)

\* the process is killed by a signal: nothing after this point runs
Crash ==
    /\ pc' = "crashed"
    /\ exit_status' = 139

(***************************************************************************)
(* main, lines 498-562: open the files, parse the patch, create the target *)
(* and the scratch file.                                                   *)
(***************************************************************************)
OpenSource ==
    /\ pc = "open_source"
    /\ \/ /\ \E n \in SourceLengths :
                source_f' = [ fd |-> "open", data |-> SourceImage(n),
                              length |-> n, mapped |-> TRUE ]
          /\ Logged("open_source", TRUE)
          /\ pc' = "open_patch"
          /\ UNCHANGED exit_status
       \/ /\ source_f' = [source_f EXCEPT !.fd = "bad"]
          /\ Logged("open_source", FALSE)
          /\ pc' = "exit"
          /\ exit_status' = 1
    /\ UNCHANGED <<patch_f, target_f, temp_source_f, scratch_file, closes, dh>>
    /\ UNCHANGED <<callerVars, poolVars, workerVars, useVars, pureVars>>

OpenPatch ==
    /\ pc = "open_patch"
    /\ \/ /\ \E img \in PatchImages :
                patch_f' = [ fd |-> "open", data |-> img,
                             length |-> Len(img), mapped |-> TRUE ]
          /\ Logged("open_patch", TRUE)
          /\ pc' = "read_header"
       \/ /\ patch_f' = [patch_f EXCEPT !.fd = "bad"]
          /\ Logged("open_patch", FALSE)
          /\ pc' = "close_source"
    /\ UNCHANGED <<source_f, target_f, temp_source_f, scratch_file, closes>>
    /\ UNCHANGED <<exit_status, dh>>
    /\ UNCHANGED <<callerVars, poolVars, workerVars, useVars, pureVars>>

\* dh = read_sqdelta_header(&patch_f, 0); offset 0 keeps an accepted read
\* inside the mapping, so no byte from outside it is looked at
ReadPatchHeader ==
    /\ pc = "read_header"
    /\ dh' = read_sqdelta_header(patch_f, 0, [j \in 1..sizeof_dh |-> WildCell])
    /\ hdr_call' = HeaderCall("patch", patch_f, 0)
    /\ Logged("read_header", dh'.magic # 0)
    /\ pc' = IF dh'.magic = 0 THEN "close_patch" ELSE "read_table"
    /\ UNCHANGED <<fileVars, exit_status>>
    /\ UNCHANGED <<callerVars, poolVars, workerVars, pureVars>>
    /\ UNCHANGED <<init_accepted, codec_calls>>

ReadPatchTable ==
    /\ pc = "read_table"
    /\ LET block_list_size == Mul(sizeof_block, dh.block_count)
           source_blocks == mmap_read(patch_f, sizeof_dh, block_list_size)
       IN  /\ Logged("read_table", source_blocks # NULL)
           /\ pc' = IF source_blocks = NULL THEN "close_patch"
                                            ELSE "create_target"
    /\ UNCHANGED <<fileVars, exit_status, dh>>
    /\ UNCHANGED <<callerVars, poolVars, workerVars, useVars, pureVars>>

\* mmap_create_without_mapping: open(O_RDWR | O_CREAT | O_TRUNC)
CreateTarget ==
    /\ pc = "create_target"
    /\ \/ /\ target_f' = [ fd |-> "open", data |-> <<>>, length |-> 0,
                           mapped |-> FALSE, state |-> "CREATED",
                           disk_length |-> 0 ]
          /\ Logged("create_target", TRUE)
          /\ pc' = "chdir"
       \/ /\ target_f' = [target_f EXCEPT !.fd = "bad"]
          /\ Logged("create_target", FALSE)
          /\ pc' = "close_patch"
    /\ UNCHANGED <<source_f, patch_f, temp_source_f, scratch_file, closes>>
    /\ UNCHANGED <<exit_status, dh>>
    /\ UNCHANGED <<callerVars, poolVars, workerVars, useVars, pureVars>>

Chdir ==
    /\ pc = "chdir"
    /\ \/ /\ Logged("chdir", TRUE)
          /\ pc' = "create_temp"
       \/ /\ Logged("chdir", FALSE)
          /\ pc' = "close_target"
    /\ UNCHANGED <<fileVars, exit_status, dh>>
    /\ UNCHANGED <<callerVars, poolVars, workerVars, useVars, pureVars>>

RECURSIVE SumUnc(_, _, _)
SumUnc(f, p, n) ==
    IF n = 0 THEN 0
    ELSE Add(SumUnc(f, p, n - 1), BlockAt(f, p, n - 1, WildCell).uncompressed_length)

\* tmp_length with the table counted one block too long
TmpLength_extra_block ==
    Add(Add(Add(source_f.length, sizeof_dh),
            Mul(sizeof_block, dh.block_count + 1)),
        SumUnc(patch_f, sizeof_dh, dh.block_count))

\* tmp_length as main adds it up (lines 552-560)
TmpLength ==
    Add(Add(Add(source_f.length, sizeof_dh),
            Mul(sizeof_block, dh.block_count)),
        SumUnc(patch_f, sizeof_dh, dh.block_count))

\* temp_source_f = mmap_create_temp(...); its fd is not looked at, and
\* expand_input is entered with prev_offset = 0, i = 0 whatever it returned.
\* On failure the struct's data is no mapping and its length is whatever the
\* stack held, or tmp_length when it was mmap that failed.
CreateTemp ==
    /\ pc = "create_temp"
    /\ \/ /\ temp_source_f' =
                [ fd |-> "open", data |-> [k \in 1..TmpLength |-> ZeroCell],
                  length |-> TmpLength, mapped |-> TRUE ]
          /\ scratch_file' = "present"
          /\ Logged("create_temp", TRUE)
       \/ /\ \/ \E g \in GarbageLengths :          \* mkstemp or ftruncate
                   \E made \in {"none", "present"} :
                      /\ temp_source_f' =
                            [ fd |-> "bad", data |-> <<>>, length |-> g,
                              mapped |-> FALSE ]
                      /\ scratch_file' = made
             \/ /\ temp_source_f' =                 \* mmap
                      [ fd |-> "bad", data |-> <<>>, length |-> TmpLength,
                        mapped |-> FALSE ]
                /\ scratch_file' = "present"
          /\ Logged("create_temp", FALSE)
    /\ pc' = "expand_gap"
    /\ prev_offset' = 0
    /\ loop_i' = 0
    /\ UNCHANGED <<source_f, patch_f, target_f, closes, exit_status, dh>>
    /\ UNCHANGED <<last_copy, poolVars, workerVars, useVars, pureVars>>

(***************************************************************************)
(* expand_input, lines 238-269: the verbatim gaps and the tail.            *)
(***************************************************************************)
Alive == exit_status = -1

\* memcpy into the scratch mapping.  A copy that leaves either mapping is
\* undefined: the process is killed, or it goes on with the bytes that fell
\* inside the mappings copied.
CopyToTemp(at, srcf, from, n, nextpc) ==
    /\ last_copy' = [ n |-> n, src_room |-> Room(srcf, from),
                      dst_room |-> Room(temp_source_f, at) ]
    /\ \/ /\ temp_source_f' =
                [ temp_source_f EXCEPT
                    !.data = CopyCells(temp_source_f, at, srcf, from, n) ]
          /\ pc' = nextpc
          /\ UNCHANGED exit_status
       \/ /\ ~CopyDefined(temp_source_f, at, srcf, from, n)
          /\ Crash
          /\ UNCHANGED temp_source_f

\* expand_input returns 0; main leaves the inner block for unlink()
ExpandFails ==
    /\ Logged("expand", FALSE)
    /\ pc' = "unlink"
    /\ UNCHANGED <<exit_status, temp_source_f, last_copy>>

ExpandGap ==
    /\ pc = "expand_gap"
    /\ loop_i < dh.block_count
    /\ LET blk == BlockAt(patch_f, sizeof_dh, loop_i, WildCell)
           offset == blk.offset % SizeMod
           length == blk.length % SizeMod
           n == Sub(offset, prev_offset)
           in_pos == mmap_read(source_f, prev_offset, n)
           out_pos == mmap_read(temp_source_f, prev_offset, n)
       IN  IF in_pos = NULL \/ out_pos = NULL
           THEN /\ ExpandFails
                /\ UNCHANGED <<prev_offset, loop_i>>
           ELSE /\ CopyToTemp(out_pos, source_f, in_pos, n, "expand_gap")
                /\ prev_offset' = Add(offset, length)
                /\ loop_i' = loop_i + 1
                /\ UNCHANGED stage_log
    /\ UNCHANGED <<source_f, patch_f, target_f, scratch_file, closes, dh>>
    /\ UNCHANGED <<poolVars, workerVars, useVars, pureVars>>

ExpandTail ==
    /\ pc = "expand_gap"
    /\ loop_i >= dh.block_count
    /\ LET n == Sub(source_f.length, prev_offset)
           in_pos == mmap_read(source_f, prev_offset, n)
           out_pos == mmap_read(temp_source_f, prev_offset, n)
       IN  IF in_pos = NULL \/ out_pos = NULL
           THEN ExpandFails
           ELSE /\ CopyToTemp(out_pos, source_f, in_pos, n, "expand_call_pool")
                /\ UNCHANGED stage_log
    /\ UNCHANGED <<source_f, patch_f, target_f, scratch_file, closes, dh>>
    /\ UNCHANGED <<prev_offset, loop_i>>
    /\ UNCHANGED <<poolVars, workerVars, useVars, pureVars>>

\* lines 271-282: prev_offset = source_f->length; fill d; run_multithreaded
ExpandCallPool ==
    /\ pc = "expand_call_pool"
    /\ prev_offset' = source_f.length
    /\ d' = [ dh |-> dh, list_file |-> "patch", list_off |-> sizeof_dh,
              task |-> "decompress", thread_count |-> d.thread_count ]
    /\ pool_pc' = "enter"
    /\ pc' = "expand_pool"
    /\ UNCHANGED <<fileVars, exit_status, stage_log, dh, loop_i, last_copy>>
    /\ UNCHANGED <<pool_i, pool_ret, spawned>>
    /\ UNCHANGED <<workerVars, useVars, pureVars>>

(***************************************************************************)
(* run_multithreaded, lines 100-173.                                       *)
(***************************************************************************)
\* no thread of a pool exists: before the spawn loop, and once the caller
\* has the pool's result
WorkersGone ==
    /\ w_pc' = [k \in Workers |-> "none"]
    /\ w_prev' = [k \in Workers |-> 0]
    /\ w_i' = [k \in Workers |-> 0]
    /\ w_res' = [k \in Workers |-> "none"]
    /\ w_cancel' = [k \in Workers |-> FALSE]
    /\ w_blocks' = [k \in Workers |-> {}]
    /\ cell_reads' = [k \in Workers |-> <<NULL, 0>>]
    /\ cell_writes' = <<>>

\* run_multithreaded has returned and its caller has taken the result
PoolGone ==
    /\ pool_i' = 0
    /\ pool_ret' = 0
    /\ spawned' = 0
    /\ WorkersGone

\* lines 105-124: sysconf, d->thread_count, calloc
PoolEnter ==
    /\ Alive
    /\ pool_pc = "enter"
    /\ \E num_cpus \in {-1} \cup (1..MaxThreads) :
          d' = [d EXCEPT !.thread_count = IF num_cpus < 1 THEN 1 ELSE num_cpus]
    /\ \/ /\ pool_pc' = "spawn"
       \/ /\ pool_pc' = "return0"
    /\ pool_i' = 0
    /\ pool_ret' = 0
    /\ spawned' = 0
    /\ WorkersGone
    /\ UNCHANGED <<fileVars, mainVars, callerVars>>
    /\ UNCHANGED <<useVars, pureVars>>

\* lines 126-138: one round of the spawn loop
PoolSpawn ==
    /\ Alive
    /\ pool_pc = "spawn"
    /\ pool_i < d.thread_count
    /\ \/ /\ w_pc' = [w_pc EXCEPT ![pool_i] = "ready"]
          /\ pool_ret' = 0
          /\ pool_i' = pool_i + 1
          /\ UNCHANGED <<pool_pc, spawned>>
       \/ /\ pool_ret' = 11
          /\ spawned' = pool_i
          /\ pool_pc' = "cancel"
          /\ pool_i' = 0
          /\ UNCHANGED w_pc
    /\ UNCHANGED <<fileVars, mainVars, callerVars, d>>
    /\ UNCHANGED <<w_prev, w_i, w_res, w_cancel, w_blocks, cell_reads, cell_writes>>
    /\ UNCHANGED <<useVars, pureVars>>

\* line 139 after a loop that ran to its end: ret is 0, no cancelling
PoolSpawned ==
    /\ Alive
    /\ pool_pc = "spawn"
    /\ pool_i >= d.thread_count
    /\ spawned' = pool_i
    /\ pool_pc' = "join"
    /\ pool_i' = 0
    /\ UNCHANGED <<fileVars, mainVars, callerVars, d, pool_ret>>
    /\ UNCHANGED <<workerVars, useVars, pureVars>>

\* lines 141-152 left out: straight to the join loop
PoolCancel_skipped ==
    /\ Alive
    /\ pool_pc = "cancel"
    /\ pool_pc' = "join"
    /\ pool_i' = 0
    /\ UNCHANGED <<fileVars, mainVars, callerVars, d>>
    /\ UNCHANGED <<pool_ret, spawned>>
    /\ UNCHANGED <<workerVars, useVars, pureVars>>

\* lines 141-152: pthread_cancel on each spawned thread
PoolCancel ==
    /\ Alive
    /\ pool_pc = "cancel"
    /\ IF pool_i < spawned
       THEN /\ w_cancel' = [w_cancel EXCEPT ![pool_i] = TRUE]
            /\ pool_i' = pool_i + 1
            /\ UNCHANGED pool_pc
       ELSE /\ pool_pc' = "join"
            /\ pool_i' = 0
            /\ UNCHANGED w_cancel
    /\ UNCHANGED <<fileVars, mainVars, callerVars, d>>
    /\ UNCHANGED <<pool_ret, spawned>>
    /\ UNCHANGED <<w_pc, w_prev, w_i, w_res, w_blocks, cell_reads, cell_writes>>
    /\ UNCHANGED <<useVars, pureVars>>

\* lines 166-167 with the last joined thread deciding: ret = !res
JoinRet_last(ret, res) == IF res = "null" THEN 1 ELSE 0

\* lines 166-167: if (!res) ret = 1
JoinRet(ret, res) == IF res = "null" THEN 1 ELSE ret

\* lines 154-168: pthread_join blocks until thread i has ended
PoolJoin ==
    /\ Alive
    /\ pool_pc = "join"
    /\ pool_i < spawned
    /\ w_pc[pool_i] = "done"
    /\ pool_ret' = JoinRet(pool_ret, w_res[pool_i])
    /\ pool_i' = pool_i + 1
    /\ w_pc' = [w_pc EXCEPT ![pool_i] = "joined"]
    /\ UNCHANGED <<fileVars, mainVars, callerVars, d>>
    /\ UNCHANGED <<pool_pc, spawned>>
    /\ UNCHANGED <<w_prev, w_i, w_res, w_cancel, w_blocks, cell_reads, cell_writes>>
    /\ UNCHANGED <<useVars, pureVars>>

\* lines 170-172: return !ret (line 123: return 0 when calloc failed)
PoolReturn ==
    /\ Alive
    /\ \/ /\ pool_pc = "join"
          /\ pool_i >= spawned
          /\ pool_pc' = IF pool_ret = 0 THEN "returned_1" ELSE "returned_0"
       \/ /\ pool_pc = "return0"
          /\ pool_pc' = "returned_0"
    /\ UNCHANGED <<fileVars, mainVars, callerVars, d>>
    /\ UNCHANGED <<pool_i, pool_ret, spawned>>
    /\ UNCHANGED <<workerVars, useVars, pureVars>>

(***************************************************************************)
(* The worker threads: decompress_blocks, lines 175-230.                   *)
(***************************************************************************)
\* lines 177-187 and 377-386: the locals, among them prev_offset read from
\* the shared cell
WorkerStart(k) ==
    /\ Alive
    /\ w_pc[k] = "ready"
    /\ w_pc' = [w_pc EXCEPT ![k] = "loop"]
    /\ w_prev' = [w_prev EXCEPT ![k] = prev_offset]
    /\ cell_reads' = [cell_reads EXCEPT ![k] = <<prev_offset, Len(cell_writes)>>]
    /\ w_i' = [w_i EXCEPT ![k] = IF d.task = "compress" THEN d.dh.block_count
                                                         ELSE 0]
    /\ UNCHANGED <<fileVars, mainVars, callerVars, poolVars>>
    /\ UNCHANGED <<w_res, w_cancel, w_blocks, cell_writes>>
    /\ UNCHANGED <<useVars, pureVars>>

\* a task returns: 0 after a diagnostic (a cancellation point, where a
\* cancelled thread may end with PTHREAD_CANCELED instead), else pd
WorkerReturns(k, res) ==
    /\ w_pc' = [w_pc EXCEPT ![k] = "done"]
    /\ \E r \in (IF res = "null" /\ w_cancel[k] THEN {"null", "canceled"}
                                              ELSE {res}) :
          w_res' = [w_res EXCEPT ![k] = r]

\* lines 193 and 393 with one more thread in the modulus than there are
Owns_wide(i, no_threads, id) == i % (no_threads + 1) = id

\* lines 193 and 393: if (i % no_threads == id), the round is this worker's
Owns(i, no_threads, id) == i % no_threads = id

\* the cells the codec stores at dest: produced bytes of block i
DecompressedInto(f, at, i, produced) ==
    [x \in 1..Len(f.data) |->
        IF x - 1 >= at /\ x - 1 < at + produced
        THEN <<"dec", i, x - 1 - at>>
        ELSE f.data[x]]

\* lines 189-224: one round of the loop
DecompressBlock(k) ==
    /\ Alive
    /\ w_pc[k] = "loop"
    /\ d.task = "decompress"
    /\ w_i[k] < d.dh.block_count
    /\ LET i == w_i[k]
           blk == BlockAt(File(d.list_file), d.list_off, i, WildCell)
           unc_length == blk.uncompressed_length % SizeMod
           offset == blk.offset % SizeMod
           length == blk.length % SizeMod
           in_pos == mmap_read(source_f, offset, length)
           out_pos == mmap_read(temp_source_f, w_prev[k], unc_length)
           Advance == /\ w_prev' = [w_prev EXCEPT ![k] = Add(w_prev[k], unc_length)]
                      /\ w_i' = [w_i EXCEPT ![k] = i + 1]
                      /\ UNCHANGED <<w_pc, w_res>>
           Stop == /\ WorkerReturns(k, "null")
                   /\ UNCHANGED <<w_prev, w_i>>
       IN  IF ~Owns(i, d.thread_count, k)
           THEN /\ Advance
                /\ UNCHANGED <<temp_source_f, codec_calls, w_blocks, pc, exit_status>>
           ELSE IF in_pos = NULL \/ out_pos = NULL
           THEN /\ Stop
                /\ UNCHANGED <<temp_source_f, codec_calls, w_blocks, pc, exit_status>>
           ELSE \E produced \in DecompressOutcomes(unc_length) :
                  LET ret == compressor_decompress(d.dh.compression,
                                 ENABLE_LZO, ENABLE_LZ4, produced)
                  IN  /\ codec_calls' = codec_calls
                            \cup {<<"decompress", d.dh.compression>>}
                      /\ w_blocks' = [w_blocks EXCEPT ![k] = @ \cup {i}]
                      /\ \/ /\ temp_source_f' =
                                  [ temp_source_f EXCEPT !.data =
                                      DecompressedInto(temp_source_f,
                                                       out_pos, i, ret) ]
                            /\ IF ret # unc_length THEN Stop ELSE Advance
                            /\ UNCHANGED <<pc, exit_status>>
                         \/ /\ ~temp_source_f.mapped
                            /\ Crash
                            /\ UNCHANGED <<temp_source_f, w_pc, w_res,
                                           w_prev, w_i>>
    /\ UNCHANGED <<source_f, patch_f, target_f, scratch_file, closes>>
    /\ UNCHANGED <<stage_log, dh, callerVars, poolVars>>
    /\ UNCHANGED <<w_cancel, cell_reads, cell_writes, pureVars>>
    /\ UNCHANGED <<init_accepted, hdr_call>>

\* lines 226-229 and 425-428 without the test of line 425: every worker
\* stores its prev_offset in the shared cell
WorkerEnd_any(k) ==
    /\ Alive
    /\ w_pc[k] = "loop"
    /\ IF d.task = "compress" THEN w_i[k] = 0 ELSE w_i[k] >= d.dh.block_count
    /\ prev_offset' = w_prev[k]
    /\ cell_writes' = Append(cell_writes, <<k, w_prev[k]>>)
    /\ WorkerReturns(k, "pd")
    /\ UNCHANGED <<fileVars, mainVars, loop_i, last_copy, poolVars>>
    /\ UNCHANGED <<w_prev, w_i, w_cancel, w_blocks, cell_reads>>
    /\ UNCHANGED <<useVars, pureVars>>

\* lines 226-229 and 425-428: worker 0 stores its prev_offset in the shared cell
WorkerEnd(k) ==
    /\ Alive
    /\ w_pc[k] = "loop"
    /\ IF d.task = "compress" THEN w_i[k] = 0 ELSE w_i[k] >= d.dh.block_count
    /\ IF k = 0
       THEN /\ prev_offset' = w_prev[k]
            /\ cell_writes' = Append(cell_writes, <<k, w_prev[k]>>)
       ELSE UNCHANGED <<prev_offset, cell_writes>>
    /\ WorkerReturns(k, "pd")
    /\ UNCHANGED <<fileVars, mainVars, loop_i, last_copy, poolVars>>
    /\ UNCHANGED <<w_prev, w_i, w_cancel, w_blocks, cell_reads>>
    /\ UNCHANGED <<useVars, pureVars>>

(***************************************************************************)
(* expand_input, lines 282-307: after the pool, the table and the header.  *)
(***************************************************************************)
ExpandAfterPool ==
    /\ pc = "expand_pool"
    /\ pool_pc \in {"returned_0", "returned_1"}
    /\ pool_pc' = "idle"
    /\ IF pool_pc = "returned_0"
       THEN ExpandFails
       ELSE /\ pc' = "expand_table"
            /\ UNCHANGED <<exit_status, stage_log, temp_source_f, last_copy>>
    /\ UNCHANGED <<source_f, patch_f, target_f, scratch_file, closes, dh>>
    /\ UNCHANGED <<prev_offset, loop_i>>
    /\ UNCHANGED d
    /\ PoolGone
    /\ UNCHANGED <<useVars, pureVars>>

ExpandTable ==
    /\ pc = "expand_table"
    /\ LET block_list_size == Mul(sizeof_block, dh.block_count)
           in_pos == mmap_read(patch_f, sizeof_dh, block_list_size)
           out_pos == mmap_read(temp_source_f, prev_offset, block_list_size)
       IN  IF in_pos = NULL \/ out_pos = NULL
           THEN /\ ExpandFails
                /\ UNCHANGED prev_offset
           ELSE /\ CopyToTemp(out_pos, patch_f, in_pos, block_list_size,
                              "expand_header")
                /\ prev_offset' = Add(prev_offset, block_list_size)
                /\ UNCHANGED stage_log
    /\ UNCHANGED <<source_f, patch_f, target_f, scratch_file, closes, dh>>
    /\ UNCHANGED <<loop_i, poolVars, workerVars, useVars, pureVars>>

ExpandHeader ==
    /\ pc = "expand_header"
    /\ LET in_pos == mmap_read(patch_f, 0, sizeof_dh)
           out_pos == mmap_read(temp_source_f, prev_offset, sizeof_dh)
       IN  IF in_pos = NULL \/ out_pos = NULL
           THEN ExpandFails
           ELSE /\ CopyToTemp(out_pos, patch_f, in_pos, sizeof_dh,
                              "expand_return")
                /\ UNCHANGED stage_log
    /\ UNCHANGED <<source_f, patch_f, target_f, scratch_file, closes, dh>>
    /\ UNCHANGED <<prev_offset, loop_i>>
    /\ UNCHANGED <<poolVars, workerVars, useVars, pureVars>>

\* line 307: return 1; the frame of expand_input is gone
ExpandReturns ==
    /\ pc = "expand_return"
    /\ Logged("expand", TRUE)
    /\ pc' = "close_temp"
    /\ prev_offset' = 0
    /\ loop_i' = 0
    /\ d' = NoShared
    /\ UNCHANGED <<fileVars, exit_status, dh, last_copy>>
    /\ UNCHANGED <<pool_pc, pool_i, pool_ret, spawned>>
    /\ UNCHANGED <<workerVars, useVars, pureVars>>

(***************************************************************************)
(* util.c: mmap_close, lines 143-165.                                      *)
(***************************************************************************)
Closed(f) == [f EXCEPT !.fd = "closed", !.mapped = FALSE]

(***************************************************************************)
(* main, lines 570-601: the differ, the squasher and the cleanup.          *)
(***************************************************************************)
CloseTemp ==
    /\ pc = "close_temp"
    /\ temp_source_f' = [Closed(temp_source_f) EXCEPT !.data = <<>>]
    /\ closes' = Append(closes, "temp")
    /\ pc' = "seek_patch"
    /\ UNCHANGED <<source_f, patch_f, target_f, scratch_file>>
    /\ UNCHANGED <<exit_status, stage_log, dh>>
    /\ UNCHANGED <<callerVars, poolVars, workerVars, useVars, pureVars>>

SeekPatch ==
    /\ pc = "seek_patch"
    /\ \/ /\ Logged("seek_patch", TRUE)
          /\ pc' = "xdelta"
       \/ /\ Logged("seek_patch", FALSE)
          /\ pc' = "unlink"
    /\ UNCHANGED <<fileVars, exit_status, dh>>
    /\ UNCHANGED <<callerVars, poolVars, workerVars, useVars, pureVars>>

(***************************************************************************)
(* run_xdelta3, lines 310-373.  A wait status is the int waitpid stores:   *)
(* exit code * 256 for a child that exited, the signal number for one that *)
(* was killed.                                                             *)
(***************************************************************************)
WEXITSTATUS(status) == (status \div 256) % 256

\* exit(0), exit(1), killed by SIGKILL
ChildStatuses == {0, 256, 9}

\* the images the differ may leave in the target.  A well-formed one is the
\* rebuilt archive (TargetPrefix bytes, block slots included), the
\* uncompressed payloads, the block table and the header.
TargetPrefix == 3
MaxTargetOffset == 2
MaxTargetUnc == 1

\* slots of one byte
TargetBlockChoices ==
    (0..MaxTargetOffset) \X {1} \X (1..MaxTargetUnc)

\* the tables whose slots are laid out in table order
TargetTables ==
    { t \in UNION { [1..n -> TargetBlockChoices] : n \in 0..MaxBlocks } :
        \A j \in 1..(Len(t) - 1) : t[j][1] < t[j + 1][1] }

RECURSIVE Payloads(_, _)
Payloads(tbl, i) ==
    IF i > Len(tbl) THEN <<>>
    ELSE [j \in 1..tbl[i][3] |-> <<"unc", i - 1, j - 1>>] \o Payloads(tbl, i + 1)

TargetImage(tbl, c) ==
    [k \in 1..TargetPrefix |-> <<"sq", k - 1>>] \o Payloads(tbl, 1)
        \o TableImage(tbl) \o HeaderImage(sqdelta_magic, 0, c, Len(tbl))

\* a target cut to the last 10 bytes of a header
ShortTarget ==
    SubSeq(HeaderImage(sqdelta_magic, 0, COMP_ID_LZO + 9, 0), 7, sizeof_dh)

\* the cut target, a target with no header at all, one whose header counts
\* more blocks than the file has room for, and one whose two blocks have the
\* same slot
OddTargets ==
    { ShortTarget,
      [k \in 1..(sizeof_dh + 1) |-> Byte(0)],
      HeaderImage(sqdelta_magic, 0, COMP_ID_LZO + 9, 1),
      TargetImage(<< <<0, 1, 1>>, <<0, 1, 1>> >>, COMP_ID_LZO + 9) }

\* every table with the LZO selector, the one-block tables with a selector
\* of an unknown codec, and the odd ones
TargetImages ==
    { TargetImage(t, COMP_ID_LZO + 9) : t \in TargetTables }
        \cup { TargetImage(t, 3 * 2^COMP_ID_SHIFT) :
                  t \in [1..1 -> TargetBlockChoices] }
        \cup OddTargets

\* the images main's run is followed with: no block, two blocks, and the
\* target cut inside its header
DifferOutputs ==
    { TargetImage(<<>>, COMP_ID_LZO + 9),
      TargetImage(<< <<0, 1, 1>>, <<1, 1, 1>> >>, COMP_ID_LZO + 9),
      ShortTarget }

\* what a differ that did not finish may have written
PartialImages == {<<>>, ShortTarget}

RunXdelta ==
    /\ pc = "xdelta"
    /\ \/ /\ Logged("xdelta", FALSE)          \* fork() failed
          /\ pc' = "unlink"
          /\ UNCHANGED target_f
       \/ \E status \in ChildStatuses :
          \E img \in (IF status = 0 THEN DifferOutputs ELSE PartialImages) :
             /\ target_f' = [ target_f EXCEPT
                                !.data = img,
                                !.disk_length = Len(img),
                                !.state = IF status = 0 THEN "AFTER_DIFF"
                                                        ELSE "PARTIAL" ]
             /\ Logged("xdelta", WEXITSTATUS(status) = 0)
             /\ pc' = IF WEXITSTATUS(status) # 0 THEN "unlink"
                                                 ELSE "map_target"
    /\ UNCHANGED <<source_f, patch_f, temp_source_f, scratch_file, closes>>
    /\ UNCHANGED <<exit_status, dh>>
    /\ UNCHANGED <<callerVars, poolVars, workerVars, useVars, pureVars>>

\* mmap_map_created_file, util.c lines 117-141; mmap of an empty file fails
MapTarget ==
    /\ pc = "map_target"
    /\ \/ /\ Len(target_f.data) > 0
          /\ target_f' = [ target_f EXCEPT !.length = Len(target_f.data),
                                           !.mapped = TRUE ]
          /\ Logged("map_target", TRUE)
          /\ pc' = "squash_header"
       \/ /\ Logged("map_target", FALSE)
          /\ pc' = "unlink"
          /\ \/ UNCHANGED target_f              \* lseek failed
             \/ target_f' = [target_f EXCEPT !.length = Len(target_f.data)]
    /\ UNCHANGED <<source_f, patch_f, temp_source_f, scratch_file, closes>>
    /\ UNCHANGED <<exit_status, dh>>
    /\ UNCHANGED <<callerVars, poolVars, workerVars, useVars, pureVars>>

(***************************************************************************)
(* squash_target_file, lines 431-473.  main ignores what it returns.       *)
(***************************************************************************)
SquashFails ==
    /\ Logged("squash", FALSE)
    /\ pc' = "unlink"
    /\ UNCHANGED exit_status

\* the 16 cells a header read may see outside the mapping
OutsideHeaders ==
    { HeaderImage(sqdelta_magic, 0, COMP_ID_LZO + 9, 0),
      [j \in 1..sizeof_dh |-> WildCell] }

\* line 438: dh = read_sqdelta_header(target_f, target_f->length - sizeof(dh))
SquashReadHeader ==
    /\ pc = "squash_header"
    /\ LET offset == Sub(target_f.length, sizeof_dh)
           h == mmap_read(target_f, offset, sizeof_dh)
           Parsed(out) ==
               /\ dh' = out
               /\ IF out.magic = 0
                  THEN SquashFails
                  ELSE /\ pc' = "squash_table"
                       /\ UNCHANGED <<exit_status, stage_log>>
           Returned == hdr_call' = HeaderCall("target", target_f, offset)
       IN  IF h = NULL \/ Inside(target_f, h, sizeof_dh)
           THEN /\ Parsed(read_sqdelta_header(target_f, offset,
                                   [j \in 1..sizeof_dh |-> WildCell]))
                /\ Returned
           ELSE \/ /\ \E outside \in OutsideHeaders :
                          Parsed(read_sqdelta_header(target_f, offset, outside))
                   /\ Returned
                \/ /\ Crash
                   /\ UNCHANGED <<dh, stage_log, hdr_call>>
    /\ UNCHANGED <<fileVars, callerVars, poolVars, workerVars, pureVars>>
    /\ UNCHANGED <<init_accepted, codec_calls>>

\* lines 442-460: locate the table, fill d, run_multithreaded
SquashReadTable ==
    /\ pc = "squash_table"
    /\ LET block_list_size == Mul(sizeof_block, dh.block_count)
           block_list_offset ==
               Sub(Sub(target_f.length, sizeof_dh), block_list_size)
           target_blocks ==
               mmap_read(target_f, block_list_offset, block_list_size)
       IN  IF target_blocks = NULL
           THEN /\ SquashFails
                /\ UNCHANGED <<prev_offset, d, pool_pc>>
           ELSE /\ prev_offset' = block_list_offset
                /\ d' = [ dh |-> dh, list_file |-> "target",
                          list_off |-> target_blocks, task |-> "compress",
                          thread_count |-> d.thread_count ]
                /\ pool_pc' = "enter"
                /\ pc' = "squash_pool"
                /\ UNCHANGED <<exit_status, stage_log>>
    /\ UNCHANGED <<fileVars, dh, loop_i, last_copy>>
    /\ UNCHANGED <<pool_i, pool_ret, spawned>>
    /\ UNCHANGED <<workerVars, useVars, pureVars>>

\* lines 460-461 with the result of run_multithreaded not looked at
SquashAfterPool_ignored ==
    /\ pc = "squash_pool"
    /\ pool_pc \in {"returned_0", "returned_1"}
    /\ pool_pc' = "idle"
    /\ pc' = "squash_truncate"
    /\ target_f' = [target_f EXCEPT !.state = "COMPRESSED"]
    /\ UNCHANGED <<exit_status, stage_log>>
    /\ UNCHANGED <<source_f, patch_f, temp_source_f, scratch_file, closes>>
    /\ UNCHANGED <<dh, callerVars, d>>
    /\ PoolGone
    /\ UNCHANGED <<useVars, pureVars>>

\* lines 460-461: if (!run_multithreaded(compress_blocks, &d)) return 0;
\* after a pool that returned 1 every block of the target is compressed
SquashAfterPool ==
    /\ pc = "squash_pool"
    /\ pool_pc \in {"returned_0", "returned_1"}
    /\ pool_pc' = "idle"
    /\ IF pool_pc = "returned_0"
       THEN /\ SquashFails
            /\ UNCHANGED target_f
       ELSE /\ pc' = "squash_truncate"
            /\ target_f' = [target_f EXCEPT !.state = "COMPRESSED"]
            /\ UNCHANGED <<exit_status, stage_log>>
    /\ UNCHANGED <<source_f, patch_f, temp_source_f, scratch_file, closes>>
    /\ UNCHANGED <<dh, callerVars, d>>
    /\ PoolGone
    /\ UNCHANGED <<useVars, pureVars>>

\* lines 465-472: ftruncate(target_f->fd, prev_offset)
SquashTruncate ==
    /\ pc = "squash_truncate"
    /\ \/ /\ target_f' = [ target_f EXCEPT !.state = "TRUNCATED",
                                           !.disk_length = prev_offset ]
          /\ Logged("squash", TRUE)
       \/ /\ Logged("squash", FALSE)
          /\ UNCHANGED target_f
    /\ pc' = "unlink"
    /\ UNCHANGED <<source_f, patch_f, temp_source_f, scratch_file, closes>>
    /\ UNCHANGED <<exit_status, dh>>
    /\ UNCHANGED <<callerVars, poolVars, workerVars, useVars, pureVars>>

(***************************************************************************)
(* compressor.c: compressor_compress, and the worker compress_blocks,      *)
(* squashmerge.c lines 375-429.                                            *)
(***************************************************************************)
compressor_compress(c, lzo, lz4, produced) ==
    CASE CompId(c) = COMP_ID_LZO -> IF lzo THEN produced ELSE 0
      [] CompId(c) = COMP_ID_LZ4 -> IF lz4 THEN produced ELSE 0
      [] OTHER -> 0

\* what the codec library may report for a block whose slot is out_size
\* bytes: out_size, an error (0), or a longer output
CompressOutcomes(out_size) == {out_size, 0, out_size + 1}

\* a byte a table read may see outside the mapping
OutsideCells == {WildCell, Byte(1)}

CompressedInto(f, at, i, stored) ==
    [x \in 1..Len(f.data) |->
        IF x - 1 >= at /\ x - 1 < at + stored
        THEN <<"cmp", i, x - 1 - at>>
        ELSE f.data[x]]

\* one round of the loop for (i = block_count; i > 0; --i)
CompressBlock(k) ==
    /\ Alive
    /\ w_pc[k] = "loop"
    /\ d.task = "compress"
    /\ w_i[k] > 0
    /\ LET i == w_i[k]
           Round(outside) ==
             LET blk == BlockAt(target_f, d.list_off, i - 1, outside)
                 unc_length == blk.uncompressed_length % SizeMod
                 prev == Sub(w_prev[k], unc_length)
                 offset == blk.offset % SizeMod
                 length == blk.length % SizeMod
                 out_pos == mmap_read(target_f, offset, length)
                 in_pos == mmap_read(target_f, prev, unc_length)
             IN  /\ w_prev' = [w_prev EXCEPT ![k] = prev]
                 /\ IF ~Owns(i, d.thread_count, k)
                    THEN /\ w_i' = [w_i EXCEPT ![k] = i - 1]
                         /\ UNCHANGED <<w_pc, w_res, w_blocks>>
                         /\ UNCHANGED <<target_f, codec_calls, pc, exit_status>>
                    ELSE IF in_pos = NULL \/ out_pos = NULL
                    THEN /\ WorkerReturns(k, "null")
                         /\ UNCHANGED <<w_i, w_blocks>>
                         /\ UNCHANGED <<target_f, codec_calls, pc, exit_status>>
                    ELSE \E produced \in CompressOutcomes(length) :
                      LET ret == compressor_compress(d.dh.compression,
                                     ENABLE_LZO, ENABLE_LZ4, produced)
                      IN  /\ codec_calls' = codec_calls
                                \cup {<<"compress", d.dh.compression>>}
                          /\ w_blocks' = [w_blocks EXCEPT ![k] = @ \cup {i - 1}]
                          /\ \/ /\ target_f' =
                                      [ target_f EXCEPT !.data =
                                          CompressedInto(target_f, out_pos,
                                                         i - 1, ret) ]
                                /\ IF ret # length
                                   THEN /\ WorkerReturns(k, "null")
                                        /\ UNCHANGED w_i
                                   ELSE /\ w_i' = [w_i EXCEPT ![k] = i - 1]
                                        /\ UNCHANGED <<w_pc, w_res>>
                                /\ UNCHANGED <<pc, exit_status>>
                             \/ /\ out_pos + ret > Len(target_f.data)
                                /\ Crash
                                /\ UNCHANGED <<target_f, w_pc, w_res, w_i>>
       IN  IF Inside(target_f, d.list_off + sizeof_block * (i - 1), sizeof_block)
           THEN Round(WildCell)
           ELSE \/ \E outside \in OutsideCells : Round(outside)
                \/ /\ Crash
                   /\ UNCHANGED <<target_f, codec_calls>>
                   /\ UNCHANGED <<w_pc, w_res, w_prev, w_i, w_blocks>>
    /\ UNCHANGED <<source_f, patch_f, temp_source_f, scratch_file, closes>>
    /\ UNCHANGED <<stage_log, dh, callerVars, poolVars>>
    /\ UNCHANGED <<w_cancel, cell_reads, cell_writes, pureVars>>
    /\ UNCHANGED <<init_accepted, hdr_call>>

(***************************************************************************)
(* main, lines 590-601: unlink, the closes, return ret.                    *)
(***************************************************************************)
\* int ret = 1 (line 486); no statement of main assigns it again
main_ret == 1

Unlink ==
    /\ pc = "unlink"
    /\ scratch_file' = IF scratch_file = "present" THEN "unlinked"
                                                   ELSE scratch_file
    /\ pc' = "close_target"
    /\ UNCHANGED <<source_f, patch_f, target_f, temp_source_f, closes>>
    /\ UNCHANGED <<exit_status, stage_log, dh>>
    /\ UNCHANGED <<callerVars, poolVars, workerVars, useVars, pureVars>>

CloseTarget ==
    /\ pc = "close_target"
    /\ target_f' = Closed(target_f)
    /\ closes' = Append(closes, "target")
    /\ pc' = "close_patch"
    /\ UNCHANGED <<source_f, patch_f, temp_source_f, scratch_file>>
    /\ UNCHANGED <<exit_status, stage_log, dh>>
    /\ UNCHANGED <<callerVars, poolVars, workerVars, useVars, pureVars>>

ClosePatch ==
    /\ pc = "close_patch"
    /\ patch_f' = Closed(patch_f)
    /\ closes' = Append(closes, "patch")
    /\ pc' = "close_source"
    /\ UNCHANGED <<source_f, target_f, temp_source_f, scratch_file>>
    /\ UNCHANGED <<exit_status, stage_log, dh>>
    /\ UNCHANGED <<callerVars, poolVars, workerVars, useVars, pureVars>>

CloseSource ==
    /\ pc = "close_source"
    /\ source_f' = Closed(source_f)
    /\ closes' = Append(closes, "source")
    /\ pc' = "return"
    /\ UNCHANGED <<patch_f, target_f, temp_source_f, scratch_file>>
    /\ UNCHANGED <<exit_status, stage_log, dh>>
    /\ UNCHANGED <<callerVars, poolVars, workerVars, useVars, pureVars>>

\* line 601: return ret
MainReturns ==
    /\ pc = "return"
    /\ exit_status' = main_ret
    /\ pc' = "exit"
    /\ UNCHANGED <<fileVars, stage_log, dh>>
    /\ UNCHANGED <<callerVars, poolVars, workerVars, useVars, pureVars>>

(***************************************************************************)
(* The program: main from its first statement, with the default build.     *)
(***************************************************************************)
Init ==
    /\ pc = "open_source"
    /\ PipeRest
    /\ CodecIdle
    /\ ReadIdle

Next ==
    \/ OpenSource
    \/ OpenPatch
    \/ ReadPatchHeader
    \/ ReadPatchTable
    \/ CreateTarget
    \/ Chdir
    \/ CreateTemp
    \/ ExpandGap
    \/ ExpandTail
    \/ ExpandCallPool
    \/ PoolEnter
    \/ PoolSpawn
    \/ PoolSpawned
    \/ PoolCancel
    \/ PoolJoin
    \/ PoolReturn
    \/ \E k \in Workers : WorkerStart(k)
    \/ \E k \in Workers : DecompressBlock(k)
    \/ \E k \in Workers : CompressBlock(k)
    \/ \E k \in Workers : WorkerEnd(k)
    \/ ExpandAfterPool
    \/ ExpandTable
    \/ ExpandHeader
    \/ ExpandReturns
    \/ CloseTemp
    \/ SeekPatch
    \/ RunXdelta
    \/ MapTarget
    \/ SquashReadHeader
    \/ SquashReadTable
    \/ SquashAfterPool
    \/ SquashTruncate
    \/ Unlink
    \/ CloseTarget
    \/ ClosePatch
    \/ CloseSource
    \/ MainReturns

Spec == Init /\ [][Next]_vars

InitCodec ==
    /\ sel \in Selectors
    /\ ENABLE_LZO \in BOOLEAN
    /\ ENABLE_LZ4 \in BOOLEAN
    /\ lzo_init_ok \in BOOLEAN
    /\ codec_pc = "call"
    /\ init_ret = 0
    /\ PipeIdle
    /\ ReadIdle

CompressorInit ==
    /\ codec_pc = "call"
    /\ codec_pc' = "done"
    /\ init_ret' = compressor_init(sel, ENABLE_LZO, ENABLE_LZ4, lzo_init_ok)
    /\ init_accepted' = IF init_ret' # 0 THEN init_accepted \cup {sel}
                                          ELSE init_accepted
    /\ UNCHANGED <<sel, ENABLE_LZO, ENABLE_LZ4, lzo_init_ok>>
    /\ UNCHANGED <<fileVars, mainVars, callerVars, poolVars, workerVars>>
    /\ UNCHANGED <<codec_calls, hdr_call, readVars>>

NextCodec == CompressorInit

SpecCodec == InitCodec /\ [][NextCodec]_vars

(***************************************************************************)
(* One call of mmap_read on a file of any of FileLengths bytes, with every *)
(* size_t offset and length.                                               *)
(***************************************************************************)
FileLengths == {0, sizeof_dh - 6, sizeof_dh, SizeMod - 1}

InitRead ==
    /\ rd_f_length \in FileLengths
    /\ rd_offset \in 0..(SizeMod - 1)
    /\ rd_length \in 0..(SizeMod - 1)
    /\ rd_pc = "call"
    /\ rd_ret = NULL
    /\ CodecIdle
    /\ PipeIdle

MmapRead ==
    /\ rd_pc = "call"
    /\ rd_pc' = "done"
    /\ rd_ret' = mmap_read([length |-> rd_f_length], rd_offset, rd_length)
    /\ UNCHANGED <<rd_f_length, rd_offset, rd_length>>
    /\ UNCHANGED <<codecVars, pipeVars>>

NextRead == MmapRead

SpecRead == InitRead /\ [][NextRead]_vars

(***************************************************************************)
(* squash_target_file on its own: main has come through every step up to   *)
(* mmap_map_created_file with a patch of no block, and the differ has left *)
(* any of TargetImages.                                                    *)
(***************************************************************************)
InitSquash ==
    /\ pc = "squash_header"
    /\ exit_status = -1
    /\ stage_log = [ j \in 1..11 |->
                       << << "open_source", "open_patch", "read_header",
                             "read_table", "create_target", "chdir",
                             "create_temp", "expand", "seek_patch", "xdelta",
                             "map_target" >>[j], TRUE >> ]
    /\ source_f = [ fd |-> "open", data |-> SourceImage(MaxSource),
                    length |-> MaxSource, mapped |-> TRUE ]
    /\ patch_f = [ fd |-> "open", data |-> PatchImage(COMP_ID_LZO + 9, <<>>),
                   length |-> Len(PatchImage(COMP_ID_LZO + 9, <<>>)),
                   mapped |-> TRUE ]
    /\ \E img \in TargetImages :
          target_f = [ fd |-> "open", data |-> img, length |-> Len(img),
                       mapped |-> TRUE, state |-> "AFTER_DIFF",
                       disk_length |-> Len(img) ]
    /\ temp_source_f = [ fd |-> "closed", data |-> <<>>,
                         length |-> MaxSource + sizeof_dh, mapped |-> FALSE ]
    /\ scratch_file = "present"
    /\ closes = <<"temp">>
    /\ dh = [ magic |-> sqdelta_magic, flags |-> 0,
              compression |-> COMP_ID_LZO + 9, block_count |-> 0 ]
    /\ prev_offset = 0
    /\ loop_i = 0
    /\ last_copy = [ n |-> sizeof_dh, src_room |-> Len(patch_f.data),
                     dst_room |-> sizeof_dh ]
    /\ d = NoShared
    /\ pool_pc = "idle"
    /\ pool_i = 0
    /\ pool_ret = 0
    /\ spawned = 0
    /\ w_pc = [k \in Workers |-> "none"]
    /\ w_prev = [k \in Workers |-> 0]
    /\ w_i = [k \in Workers |-> 0]
    /\ w_res = [k \in Workers |-> "none"]
    /\ w_cancel = [k \in Workers |-> FALSE]
    /\ w_blocks = [k \in Workers |-> {}]
    /\ cell_reads = [k \in Workers |-> <<NULL, 0>>]
    /\ cell_writes = <<>>
    /\ init_accepted = {}
    /\ codec_calls = {}
    /\ hdr_call = HeaderCall("patch", patch_f, 0)
    /\ CodecIdle
    /\ ReadIdle

NextSquash ==
    \/ SquashReadHeader
    \/ SquashReadTable
    \/ PoolEnter
    \/ PoolSpawn
    \/ PoolSpawned
    \/ PoolCancel
    \/ PoolJoin
    \/ PoolReturn
    \/ \E k \in Workers : WorkerStart(k)
    \/ \E k \in Workers : CompressBlock(k)
    \/ \E k \in Workers : WorkerEnd(k)
    \/ SquashAfterPool
    \/ SquashTruncate
    \/ Unlink
    \/ CloseTarget
    \/ ClosePatch
    \/ CloseSource
    \/ MainReturns

SpecSquash == InitSquash /\ [][NextSquash]_vars

(***************************************************************************)
(* Claims about compressor_init (checked under SpecCodec).                 *)
(***************************************************************************)
SelId == sel \div 2^24
SelLow24 == sel % 2^24

\* C7: compressor_init returns 0 (error) for every selector whose high byte
\* is neither 0x01 (LZO) nor 0x02 (LZ4), whatever its low 24 bits.
C7_UnknownIdIsError ==
    (codec_pc = "done" /\ SelId \notin {1, 2}) => init_ret = 0

\* C8: with both codecs built in and lzo_init succeeding, an LZO selector is
\* accepted exactly when bits 0-3 are in 1..9 and bits 5-23 are zero (bit 4
\* free), an LZ4 selector exactly when bits 1-23 are zero (bit 0 free);
\* every other LZO/LZ4 selector is rejected.
C8_KnownIdAcceptance ==
    (codec_pc = "done" /\ ENABLE_LZO /\ ENABLE_LZ4 /\ lzo_init_ok) =>
        /\ SelId = 1 =>
              /\ init_ret \in {0, 1}
              /\ init_ret = 1 <=>
                    (SelLow24 % 16 \in 1..9 /\ SelLow24 \div 32 = 0)
        /\ SelId = 2 =>
              /\ init_ret \in {0, 1}
              /\ init_ret = 1 <=> (SelLow24 \div 2 = 0)

\* an LZO selector of variant 9 with the optimize bit set has been accepted
C8_Witness ==
    /\ codec_pc = "done" /\ ENABLE_LZO /\ ENABLE_LZ4 /\ lzo_init_ok
    /\ SelId = 1 /\ SelLow24 = 16 + 9
    /\ init_ret = 1

(***************************************************************************)
(* Claims about mmap_read (checked under SpecRead).                        *)
(***************************************************************************)
\* C4: for all size_t offset and length and every file, mmap_read returns a
\* non-null pointer only when the true (unbounded) sum offset + length is at
\* most f.length, and returns null otherwise; this includes sums that wrap
\* modulo 2^w and offsets derived as f.length - k with k > f.length.
C4_ReadOnlyInside ==
    rd_pc = "done" =>
        /\ rd_ret # NULL => rd_offset + rd_length <= rd_f_length
        /\ rd_offset + rd_length > rd_f_length => rd_ret = NULL

(***************************************************************************)
(* Claims about the pipeline (checked under Spec) and about the worker     *)
(* pool (checked under SpecSquash).                                        *)
(***************************************************************************)
StageFailed == \E j \in 1..Len(stage_log) : stage_log[j][2] = FALSE

AllStagesOk ==
    /\ ~StageFailed
    /\ \E j \in 1..Len(stage_log) : stage_log[j] = <<"squash", TRUE>>

\* C1: the process exits with status 0 when every stage of the pipeline
\* succeeds (through re-compression and truncation), and with status 1 when
\* any stage fails.
C1_ExitStatus ==
    pc = "exit" =>
        /\ AllStagesOk => exit_status = 0
        /\ StageFailed => exit_status = 1

\* C2: in a pool run the shared prev_offset cell is written only by worker
\* 0, after its loop, and no worker reads the cell after that write: every
\* worker's starting offset is the value the pool owner stored before the
\* run.
C2_CellDiscipline ==
    /\ \A j \in 1..Len(cell_writes) : cell_writes[j][1] = 0
    /\ \A k \in Workers : cell_reads[k][2] = 0

\* the table of the patch, as expand_input and its workers read it
PatchBlock(i) == BlockAt(patch_f, sizeof_dh, i, WildCell)

\* the descriptor-list invariant: each offset is at or above the end of the
\* preceding block, and offset + length is at most source.length
TableValid ==
    \A i \in 0..(dh.block_count - 1) :
        /\ PatchBlock(i).offset + PatchBlock(i).length <= source_f.length
        /\ i > 0 => PatchBlock(i).offset
                        >= PatchBlock(i - 1).offset + PatchBlock(i - 1).length

\* C3: if the Expander succeeds, then for every block i of the patch's table
\* the decompressed bytes of block i are in the scratch range
\* [source.length + sum of unc_length_j for j < i, + unc_length_i),
\* whatever the scheduling of the workers was (stated for a scratch file
\* that was created and a table that satisfies the descriptor-list
\* invariant).
C3_BlockPositions ==
    (pc = "expand_return" /\ temp_source_f.mapped /\ TableValid) =>
        \A i \in 0..(dh.block_count - 1) :
            \A k \in 0..(PatchBlock(i).uncompressed_length - 1) :
                temp_source_f.data[source_f.length
                                   + SumUnc(patch_f, sizeof_dh, i) + k + 1]
                    = <<"dec", i, k>>

\* C5: for every table in which a descriptor violates the descriptor-list
\* invariant expand_input returns failure, and the byte count handed to any
\* copy never exceeds the bytes remaining in the source and in the scratch
\* file from the copy's start (the scratch file having been created).
C5_CopyWithinRoom ==
    temp_source_f.mapped =>
        /\ pc = "expand_return" => TableValid
        /\ last_copy.n <= last_copy.src_room
        /\ last_copy.n <= last_copy.dst_room

\* C6: compressor_init has been called on the selector and has accepted it
\* before compressor_decompress or compressor_compress is invoked with it;
\* a selector init rejects never reaches a compress or decompress call.
C6_InitBeforeUse ==
    \A c \in codec_calls : c[2] \in init_accepted

\* C9: read_sqdelta_header returns the header (magic 0x5371CEB4, decoded
\* compression and block_count) exactly when the 16 bytes at the offset are
\* inside the file, the decoded magic is right and the decoded flags are 0,
\* and the failure sentinel (magic 0) in every other case; when it fails on
\* the patch, main stops before the target or a scratch file is created.
C9_HeaderExactly ==
    hdr_call.file # "none" =>
        LET b == hdr_call.bytes
            accepted ==
                /\ hdr_call.offset + sizeof_dh <= hdr_call.f_length
                /\ ntohl(SubSeq(b, 1, 4)) = sqdelta_magic
                /\ ntohl(SubSeq(b, 5, 8)) = 0
        IN  /\ IF accepted
               THEN dh = [ magic |-> sqdelta_magic, flags |-> 0,
                           compression |-> ntohl(SubSeq(b, 9, 12)),
                           block_count |-> ntohl(SubSeq(b, 13, 16)) ]
               ELSE dh.magic = 0
            /\ (hdr_call.file = "patch" /\ dh.magic = 0) =>
                   /\ target_f.state = "absent"
                   /\ scratch_file = "none"
                   /\ temp_source_f = NoFile

PoolReturned == pool_pc \in {"returned_0", "returned_1"}

\* C10: run_multithreaded returns success if and only if every one of the T
\* workers was spawned and every worker's task returned non-null; one worker
\* returning null makes the result failure, whatever the order in which the
\* workers finish and are joined.
C10_PoolResult ==
    PoolReturned =>
        ( pool_pc = "returned_1" <=>
            /\ spawned = d.thread_count
            /\ \A k \in 0..(d.thread_count - 1) : w_res[k] \in {"pd", "canceled"} )

\* two workers were spawned, worker 0 returned null and worker 1, joined
\* last, returned its pd: the pool has returned failure
C10_Witness ==
    /\ pool_pc = "returned_0"
    /\ d.thread_count = 2 /\ spawned = 2
    /\ w_res[0] = "null" /\ w_res[1] = "pd"

(***************************************************************************)
(* Claims about the two pool tasks.                                        *)
(***************************************************************************)
\* C11: in both pool tasks, for every thread count T >= 1, the block at
\* 0-based table index i is processed by worker i mod T and by no other
\* worker (decompress_blocks iterating forward, compress_blocks in reverse).
C11_Partition ==
    \A k \in Workers : \A i \in w_blocks[k] : i % d.thread_count = k

(***************************************************************************)
(* Claims about the scratch image expand_input leaves (checked under Spec, *)
(* for a scratch file that was created and a table that satisfies the      *)
(* descriptor-list invariant).                                             *)
(***************************************************************************)
ExpanderSucceeded ==
    pc = "expand_return" /\ temp_source_f.mapped /\ TableValid

\* C12: after a successful Expander run, scratch bytes [0, source.length)
\* are byte-identical to the source: the gaps between blocks and the
\* compressed payload ranges [block_i.offset, + block_i.length) alike.
C12_SourceVerbatim ==
    ExpanderSucceeded =>
        \A x \in 1..source_f.length :
            temp_source_f.data[x] = source_f.data[x]

\* C13: after a successful Expander run, for every block_count >= 0 (0
\* included, where the pool still runs), the scratch image holds the patch's
\* block table verbatim at [source.length + sum of all unc_length_i,
\* + 12 * block_count), immediately followed by the patch's 16-byte header,
\* and the header's last byte is the last byte of the scratch file.
C13_Trailer ==
    (pc = "expand_return" /\ temp_source_f.mapped) =>
        LET base == source_f.length
                        + SumUnc(patch_f, sizeof_dh, dh.block_count)
            block_list_size == sizeof_block * dh.block_count
        IN  /\ \A j \in 1..block_list_size :
                  temp_source_f.data[base + j] = patch_f.data[sizeof_dh + j]
            /\ \A j \in 1..sizeof_dh :
                  temp_source_f.data[base + block_list_size + j]
                      = patch_f.data[j]
            /\ base + block_list_size + sizeof_dh = temp_source_f.length
            /\ Len(temp_source_f.data) = temp_source_f.length

\* a patch of no block has been expanded by a pool of two workers
C13_Witness ==
    /\ pc = "expand_return" /\ temp_source_f.mapped
    /\ dh.block_count = 0
    /\ d.task = "decompress" /\ d.thread_count = 2

(***************************************************************************)
(* Claims about squash_target_file (checked under SpecSquash).             *)
(***************************************************************************)
\* the sum, in the integers, of the uncompressed lengths of the first n
\* blocks of the table at pointer p of the target
RECURSIVE TrailerUnc(_, _)
TrailerUnc(p, n) ==
    IF n = 0 THEN 0
    ELSE TrailerUnc(p, n - 1)
             + BlockAt(target_f, p, n - 1, WildCell).uncompressed_length

\* C14: after a successful Squasher run, under every interleaving of the
\* compress workers, the target has been truncated to exactly
\* L - sizeof(header) - block_table_bytes - sum of all unc_length_i, L being
\* the post-diff length and the table the one in the target's trailer.
C14_TruncatedLength ==
    target_f.state = "TRUNCATED" =>
        LET block_list_offset ==
                target_f.length - sizeof_dh - sizeof_block * dh.block_count
        IN  target_f.disk_length
                = block_list_offset
                      - TrailerUnc(block_list_offset, dh.block_count)

C14_Witness ==
    /\ target_f.state = "TRUNCATED"
    /\ dh.block_count = 2
    /\ d.thread_count = 2
    /\ target_f.disk_length < target_f.length - sizeof_dh - sizeof_block * 2

(***************************************************************************)
(* Claims about the order of main's steps (checked under Spec).            *)
(***************************************************************************)
InSquash ==
    pc \in {"squash_header", "squash_table", "squash_pool", "squash_truncate"}

\* C15: squash_target_file is started only after the xdelta3 child has
\* exited successfully and mmap_map_created_file has succeeded; when the
\* differ or the re-map fails there is no re-compression and no truncation.
C15_SquashOnlyAfterDiff ==
    /\ InSquash => /\ target_f.state \in {"AFTER_DIFF", "COMPRESSED"}
                   /\ target_f.mapped
    /\ (\E j \in 1..Len(stage_log) :
            stage_log[j] \in {<<"xdelta", FALSE>>, <<"map_target", FALSE>>}) =>
           /\ \A c \in codec_calls : c[1] # "compress"
           /\ target_f.state # "TRUNCATED"

\* C16: once a step of the pipeline (open source, open patch, parse header,
\* read block table, create target, chdir, create scratch file, expand, seek
\* patch, run xdelta3, re-map target, squash) has reported failure, no later
\* step is executed: a failure is the last entry of the log of steps.
C16_NoStepAfterFailure ==
    \A j \in 1..Len(stage_log) :
        stage_log[j][2] = FALSE => j = Len(stage_log)

\* the FileMaps that were opened or created, in the order of acquisition
Acquired ==
    LET Got(stage) == \E j \in 1..Len(stage_log) : stage_log[j] = <<stage, TRUE>>
        Opened(name) ==
            \/ name = "source" /\ Got("open_source")
            \/ name = "patch" /\ Got("open_patch")
            \/ name = "target" /\ Got("create_target")
            \/ name = "temp" /\ Got("create_temp")
    IN  SelectSeq(<<"source", "patch", "target", "temp">>, Opened)

Reverse(s) == [j \in 1..Len(s) |-> s[Len(s) + 1 - j]]

\* C17: on every exit path of main after at least one file was opened, each
\* FileMap that was opened or created (source, patch, target, scratch) has
\* been unmapped and closed exactly once before the exit, in reverse order
\* of acquisition.
C17_ClosedInReverse ==
    (pc = "exit" /\ Acquired # <<>>) => closes = Reverse(Acquired)

(***************************************************************************)
(* Claims about the compress pool (checked under SpecSquash).              *)
(***************************************************************************)
\* block i of the table the compress workers walk
TargetBlock(i) == BlockAt(target_f, d.list_off, i, WildCell)

\* the table lies in the mapping, and the slots of its blocks are pairwise
\* disjoint and end at or below the first byte of the uncompressed payloads
SlotsBelowPayload ==
    LET n == d.dh.block_count
        payload == d.list_off - TrailerUnc(d.list_off, n)
    IN  /\ Inside(target_f, d.list_off, sizeof_block * n)
        /\ payload >= 0
        /\ \A i \in 0..(n - 1) :
              TargetBlock(i).offset + TargetBlock(i).length <= payload
        /\ \A i, j \in 0..(n - 1) :
              i < j => \/ TargetBlock(i).offset + TargetBlock(i).length
                              <= TargetBlock(j).offset
                       \/ TargetBlock(j).offset + TargetBlock(j).length
                              <= TargetBlock(i).offset

\* worker k stands before the round of one of its own blocks, and both
\* mmap_read calls of that round will succeed
AboutToCompress(k) ==
    /\ d.task = "compress"
    /\ w_pc[k] = "loop"
    /\ w_i[k] > 0
    /\ w_i[k] % d.thread_count = k
    /\ LET blk == TargetBlock(w_i[k] - 1)
       IN  /\ mmap_read(target_f, blk.offset, blk.length) # NULL
           /\ mmap_read(target_f, Sub(w_prev[k], blk.uncompressed_length),
                        blk.uncompressed_length) # NULL

\* C18: for a post-diff target whose block slots are pairwise disjoint and
\* lie below the uncompressed payloads, under every interleaving, the bytes
\* a compress worker reads as the payload of block i are exactly the bytes
\* the differ wrote for block i: no worker has written into them.
C18_PayloadIntact ==
    \A k \in Workers :
        (SlotsBelowPayload /\ AboutToCompress(k)) =>
            LET i == w_i[k] - 1
                blk == TargetBlock(i)
                in_pos == Sub(w_prev[k], blk.uncompressed_length)
            IN  \A j \in 0..(blk.uncompressed_length - 1) :
                    CellAt(target_f, in_pos, j, WildCell) = <<"unc", i, j>>

\* the place of a state of the target in its life; a target the differ left
\* unfinished stands where the finished one does
Rank(state) ==
    CASE state = "CREATED" -> 0
      [] state \in {"AFTER_DIFF", "PARTIAL"} -> 1
      [] state = "COMPRESSED" -> 2
      [] state = "TRUNCATED" -> 3

AllJoinedOk ==
    /\ pool_pc = "returned_1"
    /\ spawned = d.thread_count
    /\ \A k \in Workers :
          k < d.thread_count => w_pc[k] = "joined" /\ w_res[k] = "pd"

SomeWorkerFailed == \E k \in Workers : w_res[k] = "null"

C19_Forward ==
    /\ target_f'.state # target_f.state =>
           Rank(target_f'.state) = Rank(target_f.state) + 1
    /\ Rank(target_f'.state) > 1 /\ Rank(target_f.state) = 1 => AllJoinedOk
    /\ SomeWorkerFailed /\ pc' # pc =>
           /\ target_f'.state = "AFTER_DIFF"
           /\ \/ /\ pc' = "unlink"
                 /\ stage_log' = Append(stage_log, <<"squash", FALSE>>)
              \/ pc' = "crashed"

CreateFailed ==
    /\ pool_pc \in {"cancel", "join", "returned_0", "returned_1"}
    /\ spawned < d.thread_count

C20_AfterCreateFailed ==
    CreateFailed =>
        /\ \A j \in Workers : j >= spawned => w_pc[j] = "none"
        /\ pool_pc # "cancel" => \A j \in 0..(spawned - 1) : w_cancel[j]
        /\ pool_pc # "returned_1"
        /\ pool_pc = "returned_0" =>
               \A j \in 0..(spawned - 1) : w_pc[j] = "joined"

\* a thread is joined by the one round of the join loop that has its index,
\* after it has ended; an ended or joined thread does not run again
C20_JoinedOnce ==
    \A j \in Workers :
        /\ (w_pc'[j] = "joined" /\ w_pc[j] # "joined") =>
               w_pc[j] = "done" /\ pool_i = j /\ pool_i' = j + 1
        /\ w_pc[j] = "joined" => w_pc'[j] \in {"joined", "none"}
        /\ w_pc[j] = "done" => w_pc'[j] \in {"done", "joined"}

\* C20: when pthread_create fails for worker k, no worker with an index
\* above k is created, each of the k spawned workers is cancelled and
\* afterwards joined exactly once, no task is started again, and
\* run_multithreaded returns failure.
C20_SpawnFailure ==
    /\ []C20_AfterCreateFailed
    /\ [][C20_JoinedOnce]_vars

C20_Witness ==
    /\ pool_pc = "returned_0"
    /\ d.thread_count = 2
    /\ spawned = 1
    /\ w_cancel[0]
    /\ w_pc[0] = "joined"
    /\ w_blocks[0] # {}

\* C21: when the codec's output for a block is not the block's declared
\* compressed length, no byte of the target outside the block's declared
\* slot [offset, offset + length) has been modified: every byte a compress
\* worker has stored for block i lies in the slot of block i, because
\* compressor_compress stores at most out_size bytes at dest.
C21_StoredWithinSlot ==
    (d.task = "compress" /\ SlotsBelowPayload) =>
        \A x \in 1..Len(target_f.data) :
            target_f.data[x][1] = "cmp" =>
                LET i == target_f.data[x][2]
                    j == target_f.data[x][3]
                IN  /\ j < TargetBlock(i).length
                    /\ x - 1 = TargetBlock(i).offset + j

\* C22: run_xdelta3 reports success only if the xdelta3 child terminated
\* normally with exit status 0: when main goes on to re-map the target, the
\* differ has completed, never been killed by a signal.
C22_SuccessOnlyOnExitZero ==
    pc = "map_target" => target_f.state = "AFTER_DIFF"

(***************************************************************************)
(* Claims about the division of the blocks among the workers of a pool     *)
(* (checked under Spec, which runs both pools).                            *)
(***************************************************************************)
\* the workers that have processed block index i
Processors(i) == {k \in Workers : i \in w_blocks[k]}

C23_AllOnce ==
    pool_pc = "returned_1" =>
        /\ \A i \in 0..(d.dh.block_count - 1) : Cardinality(Processors(i)) = 1
        /\ \A k \in Workers : w_blocks[k] \subseteq 0..(d.dh.block_count - 1)

\* a round that processes a block processes one this worker has not had
C23_NotAgain ==
    \A k \in Workers :
        (w_blocks'[k] # w_blocks[k] /\ w_blocks'[k] # {}) =>
            /\ w_pc[k] = "loop"
            /\ Cardinality(w_blocks'[k]) = Cardinality(w_blocks[k]) + 1

\* C23: for every thread count and every block_count, in a pool run in
\* which all workers run to completion without error, every block index in
\* [0, block_count) is processed by exactly one worker, in decompress_blocks
\* and in compress_blocks: no block is skipped, none is processed twice.
C23_EveryBlockOnce ==
    /\ []C23_AllOnce
    /\ [][C23_NotAgain]_vars

C23_Witness ==
    /\ pool_pc = "returned_1"
    /\ d.task = "compress"
    /\ d.dh.block_count = 2
    /\ d.thread_count = 2
    /\ w_blocks[0] = {1}
    /\ w_blocks[1] = {0}

=============================================================================
